---------------------------- MODULE Spec2Model ----------------------------
(***************************************************************************)
(* csharp_comparison/sum.c: five kernels that sum an array of u32, the     *)
(* cycle timer measure_cycles, the test runner run_test and the driver     *)
(* main.                                                                   *)
(*                                                                         *)
(* Machine words are scaled down: u32 has Width bits and uint64_t has      *)
(* TscBits bits, so that index and counter wraparound are reachable.  All  *)
(* arithmetic the code does in u32 is done modulo U32 here.                *)
(*                                                                         *)
(* A buffer is held as a generator (its length and the rule that gives     *)
(* element j), never as an enumerated array: "iota" is the buffer run_test *)
(* fills (element j is j), "cyclic" repeats a short pattern.               *)
(***************************************************************************)
EXTENDS Integers, Sequences, FiniteSets

VARIABLES
    \* ---- a kernel called on its own (SpecKernel) ----
    func,           \* the kernel called / the kernel run_test was given
    count,          \* the kernel's count argument
    input_data,     \* the buffer: a generator record, or NULL
    kst,            \* the running kernel's locals and position
    \* ---- the program (Spec): main, run_test, measure_cycles ----
    pc,             \* the statement the program is at
    next_call,      \* main: which run_test call comes next (1..5)
    i,              \* run_test: index into sizes
    size,           \* run_test: sizes[i]
    live,           \* number of malloc'ed buffers not yet freed
    cpu_clock,      \* run_test's cpu_clock, written through the pointer
    rt_cycles,      \* run_test's cycles (what measure_cycles returned)
    adds_per_cycle, \* run_test's adds_per_cycle
    result,         \* run_test's result
    run,            \* measure_cycles: loop counter
    min_cycles,     \* measure_cycles: minimum so far
    start_time,     \* measure_cycles: timespec read before the call
    end_time,       \* measure_cycles: timespec read after the call
    start_regs,     \* measure_cycles: <<start_low, start_high>>
    end_regs,       \* measure_cycles: <<end_low, end_high>>
    cycles,         \* measure_cycles: end - start of the latest run
    elapsed_ns,     \* measure_cycles: elapsed_ns of the latest run
    tsc,            \* the hardware time-stamp counter
    now,            \* the monotonic clock: index into ClockReadings
    out,            \* standard output, summarised
    err,            \* standard error: the diagnostics written
    exit_status,    \* the process's exit status, once it has exited
    calls,          \* kernel invocations made for the current size
    events,         \* measure_cycles: what the current run has done, in order
    lowest,         \* measure_cycles: the least value of cycles seen in this call, -1 before the first
    steps,          \* run_test's steps taken for the current size, in order
    invoked,        \* the kernels run_test has been called with, in order
    completed       \* the kernel/size pairs finished: <<func, size, calls, rows>>

\* ------------------------------------------------------------------ bounds

Width == 13                      \* bits of u32 in the model
MaxCount == 9                    \* counts 0..MaxCount, and the MaxCount counts below 2^Width
MaxPeriod == 3                   \* cyclic buffers repeat patterns of up to this length
TscBits == 2                     \* bits of uint64_t and of the time-stamp counter
LowBits == 1                     \* bits of a rdtsc half (eax, edx) in the model

U32 == 2 ^ Width

\* ----------------------------------------------------------------- buffers

NULL == [len |-> 0, kind |-> "null", pat |-> <<>>]

Iota(n) == [len |-> n, kind |-> "iota", pat |-> <<>>]

Cyclic(n, p) == [len |-> n, kind |-> "cyclic", pat |-> p]

\* input_data[j], for j inside the buffer
Load(buf, j) ==
    IF buf.kind = "iota" THEN j % U32
    ELSE buf.pat[(j % Len(buf.pat)) + 1]

InBounds(buf, j) == 0 <= j /\ j < buf.len

\* ------------------------------------------------------------- u32 algebra

AddU32(a, b) == (a + b) % U32

\* ---------------------------------------------------------------- kernels
\* A kernel's locals: pc is "loop" (the main loop), "tail" (the remainder
\* loop of the vector kernels), "done" (returned, result holds the value) or
\* "undefined" (an element outside the buffer was read: the behaviour is
\* undefined from there on and oob records it).

\* KernelNames with the two unrolled kernels exchanged.
KernelNamesSwapped ==
    <<"SingleScalar", "Unroll4Scalar", "Unroll2Scalar", "Simd128", "Simd256">>

\* main, lines 155-159: the kernels in the order of the run_test calls
KernelNames == <<"SingleScalar", "Unroll2Scalar", "Unroll4Scalar", "Simd128", "Simd256">>

Kernels == {KernelNames[k] : k \in 1..Len(KernelNames)}

Zero(lanes) == [l \in 1..lanes |-> 0]

KInit(f) ==
    [pc |-> "loop", i |-> 0, result |-> 0, oob |-> FALSE,
     total_sum |-> CASE f = "Simd128" -> Zero(4)
                     [] f = "Simd256" -> Zero(8)
                     [] OTHER -> 0]

OutOfBounds(st) == [st EXCEPT !.pc = "undefined", !.oob = TRUE]

Return(st, value) == [st EXCEPT !.pc = "done", !.result = value]

\* for (i = 0; i < count; i++) total_sum += input_data[i];
SingleScalar(n, buf, st) ==
    IF st.pc # "loop" THEN st
    ELSE IF st.i < n
    THEN IF InBounds(buf, st.i)
         THEN [st EXCEPT !.total_sum = AddU32(@, Load(buf, st.i)),
                         !.i = AddU32(@, 1)]
         ELSE OutOfBounds(st)
    ELSE Return(st, st.total_sum)

\* for (i = 0; i < count; i += 2) { += input_data[i]; += input_data[i + 1]; }
Unroll2Scalar(n, buf, st) ==
    IF st.pc # "loop" THEN st
    ELSE IF st.i < n
    THEN IF InBounds(buf, st.i) /\ InBounds(buf, AddU32(st.i, 1))
         THEN [st EXCEPT !.total_sum = AddU32(AddU32(@, Load(buf, st.i)),
                                              Load(buf, AddU32(st.i, 1))),
                         !.i = AddU32(@, 2)]
         ELSE OutOfBounds(st)
    ELSE Return(st, st.total_sum)

\* Unroll4Scalar with a loop that stops before an incomplete group of four.
Unroll4Guarded(n, buf, st) ==
    IF st.pc # "loop" THEN st
    ELSE IF st.i + 3 < n
    THEN [st EXCEPT !.total_sum =
                       AddU32(AddU32(AddU32(AddU32(@, Load(buf, st.i)),
                                            Load(buf, st.i + 1)),
                                     Load(buf, st.i + 2)),
                              Load(buf, st.i + 3)),
                    !.i = AddU32(@, 4)]
    ELSE Return(st, st.total_sum)

\* for (i = 0; i < count; i += 4) { four additions, input_data[i .. i + 3] }
Unroll4Scalar(n, buf, st) ==
    IF st.pc # "loop" THEN st
    ELSE IF st.i < n
    THEN IF /\ InBounds(buf, st.i)
            /\ InBounds(buf, AddU32(st.i, 1))
            /\ InBounds(buf, AddU32(st.i, 2))
            /\ InBounds(buf, AddU32(st.i, 3))
         THEN [st EXCEPT !.total_sum =
                            AddU32(AddU32(AddU32(AddU32(@, Load(buf, st.i)),
                                                 Load(buf, AddU32(st.i, 1))),
                                          Load(buf, AddU32(st.i, 2))),
                                   Load(buf, AddU32(st.i, 3))),
                         !.i = AddU32(@, 4)]
         ELSE OutOfBounds(st)
    ELSE Return(st, st.total_sum)

\* ---- the intrinsics, on vectors of u32 lanes (lane 1 is the lowest) ----

\* _mm_loadu_si128 / _mm256_loadu_si256 of &input_data[i]: `lanes` consecutive
\* elements from element i on; the address is a pointer, it does not wrap.
mm_loadu(buf, at, lanes) == [l \in 1..lanes |-> Load(buf, at + l - 1)]

LoadInBounds(buf, at, lanes) == \A l \in 1..lanes : InBounds(buf, at + l - 1)

\* _mm_add_epi32 / _mm256_add_epi32
mm_add_epi32(a, b) == [l \in DOMAIN a |-> AddU32(a[l], b[l])]

\* _mm_hadd_epi32
mm_hadd_epi32(a, b) ==
    <<AddU32(a[1], a[2]), AddU32(a[3], a[4]), AddU32(b[1], b[2]), AddU32(b[3], b[4])>>

\* _mm_cvtsi128_si32
mm_cvtsi128_si32(a) == a[1]

\* _mm256_castsi256_si128
mm256_castsi256_si128(a) == <<a[1], a[2], a[3], a[4]>>

\* _mm256_extracti128_si256(a, 1)
mm256_extracti128_si256(a) == <<a[5], a[6], a[7], a[8]>>

\* The remainder loop shared by both vector kernels:
\* for (; i < count; i++) result += input_data[i]; return result;
TailLoop(n, buf, st) ==
    IF st.i < n
    THEN IF InBounds(buf, st.i)
         THEN [st EXCEPT !.result = AddU32(@, Load(buf, st.i)),
                         !.i = AddU32(@, 1)]
         ELSE OutOfBounds(st)
    ELSE [st EXCEPT !.pc = "done"]

Reduce128(total_sum) ==
    LET h1 == mm_hadd_epi32(total_sum, total_sum)
        h2 == mm_hadd_epi32(h1, h1)
    IN  mm_cvtsi128_si32(h2)

Simd128(n, buf, st) ==
    IF st.pc = "loop"
    THEN IF AddU32(st.i, 4) <= n
         THEN IF LoadInBounds(buf, st.i, 4)
              THEN [st EXCEPT !.total_sum = mm_add_epi32(@, mm_loadu(buf, st.i, 4)),
                              !.i = AddU32(@, 4)]
              ELSE OutOfBounds(st)
         ELSE [st EXCEPT !.pc = "tail", !.result = Reduce128(st.total_sum)]
    ELSE IF st.pc = "tail" THEN TailLoop(n, buf, st)
    ELSE st

\* Reduce256 without the upper 128 bits.
Reduce256LowHalf(total_sum) == Reduce128(mm256_castsi256_si128(total_sum))

Reduce256(total_sum) ==
    LET sum128 == mm_add_epi32(mm256_castsi256_si128(total_sum),
                               mm256_extracti128_si256(total_sum))
    IN  Reduce128(sum128)

Simd256(n, buf, st) ==
    IF st.pc = "loop"
    THEN IF AddU32(st.i, 8) <= n
         THEN IF LoadInBounds(buf, st.i, 8)
              THEN [st EXCEPT !.total_sum = mm_add_epi32(@, mm_loadu(buf, st.i, 8)),
                              !.i = AddU32(@, 8)]
              ELSE OutOfBounds(st)
         ELSE [st EXCEPT !.pc = "tail", !.result = Reduce256(st.total_sum)]
    ELSE IF st.pc = "tail" THEN TailLoop(n, buf, st)
    ELSE st

\* One step of kernel f: one loop iteration, the reduction, or the return.
KStep(f, n, buf, st) ==
    CASE f = "SingleScalar"  -> SingleScalar(n, buf, st)
      [] f = "Unroll2Scalar" -> Unroll2Scalar(n, buf, st)
      [] f = "Unroll4Scalar" -> Unroll4Scalar(n, buf, st)
      [] f = "Simd128"       -> Simd128(n, buf, st)
      [] f = "Simd256"       -> Simd256(n, buf, st)

Running(st) == st.pc \in {"loop", "tail"}

\* A whole call: KStep applied until the kernel has returned.  A call that
\* returns takes at most n + 3 steps; the halving keeps the evaluation shallow.
RECURSIVE Iter(_, _, _, _, _)
Iter(f, n, buf, st, k) ==
    IF k = 0 THEN st
    ELSE IF k = 1 THEN KStep(f, n, buf, st)
    ELSE CHOOSE r \in {Iter(f, n, buf, w, k - (k \div 2)) :
                         w \in {Iter(f, n, buf, st, k \div 2)}} : TRUE

RunKernel(f, n, buf) == Iter(f, n, buf, KInit(f), n + 3)

\* ------------------------------------------------------- kernel, on its own

\* u32 test_sizes[] = {5000};
test_sizes == <<5000>>

num_sizes == Len(test_sizes)

DriverSizes == {test_sizes[k] : k \in 1..num_sizes}

Patterns == UNION {[1..p -> {0, 1, U32 - 1}] : p \in 1..MaxPeriod}

Counts == (0..MaxCount) \cup {U32 - d : d \in 1..MaxCount} \cup DriverSizes

\* Every pattern for the small counts; the filled buffer alone for the
\* driver's sizes and for the counts just below 2^Width.
Buffers(n) ==
    {Iota(n)} \cup
    IF n <= MaxCount THEN {Cyclic(n, p) : p \in Patterns} ELSE {}

\* ------------------------------------------------------------ the program

NUM_RUNS == 100

EXIT_FAILURE == 1

U64 == 2 ^ TscBits

UINT64_MAX == U64 - 1

Low32 == 2 ^ LowBits

NsPerSec == 1000000000

\* What clock_gettime(CLOCK_MONOTONIC) can return, in increasing order.
ClockReadings ==
    << [tv_sec |-> 0, tv_nsec |-> 999999999],
       [tv_sec |-> 1, tv_nsec |-> 0],
       [tv_sec |-> 1, tv_nsec |-> 999999999] >>

\* rdtsc: eax gets the counter's low half, edx its high half
Rdtsc(t) == <<t % Low32, t \div Low32>>

\* Combine with the halves exchanged.
CombineSwapped(regs) == ((regs[1] * Low32) % U64) + regs[2]

\* ((uint64_t)high << 32) | low
Combine(regs) == ((regs[2] * Low32) % U64) + regs[1]

SubU64(a, b) == (a - b) % U64

\* (end.tv_sec - start.tv_sec) * 1000000000 + (end.tv_nsec - start.tv_nsec),
\* stored in a uint64_t
ElapsedNs(s, e) == (e.tv_sec - s.tv_sec) * NsPerSec + (e.tv_nsec - s.tv_nsec)

\* ---- doubles: an integer converted, or a quotient kept as written ----
\* kind is "int" (num is the integer), or the class of the quotient num / den:
\* "finite", "inf" (non-zero over zero) or "nan" (zero over zero).

Double(n) == [kind |-> "int", num |-> n, den |-> 1]

RECURSIVE IsZero(_)
IsZero(d) ==
    IF d.kind = "int" THEN d.num = 0
    ELSE d.kind = "finite" /\ IsZero(d.num)

Class(d) == IF d.kind = "int" THEN "finite" ELSE d.kind

\* a / b in IEEE double arithmetic, for a finite non-zero or zero b
FDiv(a, b) ==
    [kind |-> IF Class(a) # "finite" THEN Class(a)
              ELSE IF IsZero(b) THEN (IF IsZero(a) THEN "nan" ELSE "inf")
              ELSE "finite",
     num |-> a, den |-> b]

\* (double)cycles / (elapsed_ns / 1e9)
ClockHz(c, ns) == FDiv(Double(c), FDiv(Double(ns), Double(NsPerSec)))

\* ---- standard output, summarised: the lines written are counted and only
\* the last one is kept ----

NoLine == [kind |-> "none"]

Emit(o, line) ==
    [o EXCEPT !.lines = @ + 1,
              !.table_lines = @ + 1,
              !.rows = IF line.kind = "row" THEN @ + 1 ELSE @,
              !.footers = IF line.kind = "footer" THEN @ + 1 ELSE @,
              !.last = line]

\* The kernel calls the program makes are calls on the buffer run_test
\* filled, with a size of test_sizes: their outcomes are tabulated once.
FilledRuns == [f \in Kernels, s \in DriverSizes |-> RunKernel(f, s, Iota(s))]

\* func(size, input_data)
Invoke(f, n, buf) ==
    IF n \in DriverSizes /\ buf = Iota(n) THEN FilledRuns[f, n]
    ELSE RunKernel(f, n, buf)

kernel_vars == <<count, kst>>

timer_vars == <<run, min_cycles, start_time, end_time, start_regs, end_regs,
                cycles, elapsed_ns>>

env_vars == <<tsc, now>>

rt_vars == <<i, size, live, rt_cycles, adds_per_cycle, result>>

log_vars == <<steps, invoked, completed>>

probe_vars == <<events, lowest>>

io_vars == <<out, err, exit_status>>

InitMain ==
    /\ count = 0
    /\ kst = KInit("none")
    /\ pc = "main"
    /\ next_call = 1
    /\ func = "none"
    /\ input_data = NULL
    /\ i = 0 /\ size = 0 /\ live = 0
    /\ cpu_clock = Double(0)
    /\ rt_cycles = 0
    /\ adds_per_cycle = Double(0)
    /\ result = 0
    /\ run = 0 /\ min_cycles = 0
    /\ start_time = ClockReadings[1] /\ end_time = ClockReadings[1]
    /\ start_regs = <<0, 0>> /\ end_regs = <<0, 0>>
    /\ cycles = 0 /\ elapsed_ns = 0
    /\ tsc \in 0..(U64 - 1)
    /\ now = 1
    /\ out = [lines |-> 0, tables |-> 0, table_lines |-> 0, rows |-> 0,
              footers |-> 0, last |-> NoLine]
    /\ err = <<>>
    /\ exit_status = -1
    /\ calls = 0
    /\ events = <<>>
    /\ lowest = -1
    /\ steps = <<>>
    /\ invoked = <<>>
    /\ completed = <<>>

\* main, lines 155-159: the next run_test call; run_test prints the table's
\* title and column header (lines 122-125) before its loop.
RunTestEnter ==
    /\ pc = "main"
    /\ next_call <= Len(KernelNames)
    /\ func' = KernelNames[next_call]
    /\ invoked' = Append(invoked, KernelNames[next_call])
    /\ out' = LET o0 == [out EXCEPT !.tables = @ + 1, !.table_lines = 0, !.rows = 0]
                  o1 == Emit(o0, [kind |-> "title", func |-> KernelNames[next_call]])
                  o2 == Emit(o1, [kind |-> "rule"])
                  o3 == Emit(o2, [kind |-> "columns"])
              IN  Emit(o3, [kind |-> "rule"])
    /\ i' = 0
    /\ pc' = "rt_loop"
    /\ UNCHANGED <<next_call, input_data, size, live, cpu_clock, rt_cycles,
                   adds_per_cycle, result, calls, steps, completed, err,
                   exit_status>>
    /\ UNCHANGED <<kernel_vars, timer_vars, env_vars>>
    /\ UNCHANGED probe_vars

\* line 127-128: for (i = 0; i < num_sizes; i++) { size = sizes[i];
RtLoop ==
    /\ pc = "rt_loop"
    /\ IF i < num_sizes
       THEN /\ size' = test_sizes[i + 1]
            /\ calls' = 0
            /\ steps' = <<>>
            /\ pc' = "rt_malloc"
       ELSE /\ pc' = "rt_footer"
            /\ UNCHANGED <<size, calls, steps>>
    /\ UNCHANGED <<func, next_call, input_data, i, live, cpu_clock, rt_cycles,
                   adds_per_cycle, result, invoked, completed>>
    /\ UNCHANGED <<kernel_vars, timer_vars, env_vars, io_vars>>
    /\ UNCHANGED probe_vars

\* line 129: malloc returns a buffer of size elements, not yet written
MallocOk ==
    /\ pc = "rt_malloc"
    /\ input_data' = [len |-> size, kind |-> "uninit", pat |-> <<>>]
    /\ live' = live + 1
    /\ steps' = Append(steps, "malloc")
    /\ pc' = "rt_fill"
    /\ UNCHANGED <<func, next_call, i, size, cpu_clock, rt_cycles,
                   adds_per_cycle, result, calls, invoked, completed>>
    /\ UNCHANGED <<kernel_vars, timer_vars, env_vars, io_vars>>
    /\ UNCHANGED probe_vars

\* MallocFail without the diagnostic.
MallocFailSilent ==
    /\ pc = "rt_malloc"
    /\ input_data' = NULL
    /\ steps' = Append(steps, "malloc")
    /\ exit_status' = EXIT_FAILURE
    /\ pc' = "exited"
    /\ UNCHANGED <<func, next_call, i, size, live, cpu_clock, rt_cycles,
                   adds_per_cycle, result, calls, invoked, completed, out, err>>
    /\ UNCHANGED <<kernel_vars, timer_vars, env_vars, probe_vars>>

\* lines 129-133: malloc returns NULL; the diagnostic, then exit(EXIT_FAILURE)
MallocFail ==
    /\ pc = "rt_malloc"
    /\ input_data' = NULL
    /\ steps' = Append(steps, "malloc")
    /\ err' = Append(err, [kind |-> "alloc_failed", size |-> size])
    /\ exit_status' = EXIT_FAILURE
    /\ pc' = "exited"
    /\ UNCHANGED <<func, next_call, i, size, live, cpu_clock, rt_cycles,
                   adds_per_cycle, result, calls, invoked, completed, out>>
    /\ UNCHANGED <<kernel_vars, timer_vars, env_vars>>
    /\ UNCHANGED probe_vars

\* lines 135-139: input_data[j] = j for every j < size; cpu_clock = 0
Fill ==
    /\ pc = "rt_fill"
    /\ input_data' = Iota(size)
    /\ cpu_clock' = Double(0)
    /\ steps' = Append(steps, "fill")
    /\ pc' = "mc_enter"
    /\ UNCHANGED <<func, next_call, i, size, live, rt_cycles, adds_per_cycle,
                   result, calls, invoked, completed>>
    /\ UNCHANGED <<kernel_vars, timer_vars, env_vars, io_vars>>
    /\ UNCHANGED probe_vars

\* lines 140, 93: measure_cycles is called; min_cycles = UINT64_MAX
McEnter ==
    /\ pc = "mc_enter"
    /\ min_cycles' = UINT64_MAX
    /\ run' = 0
    /\ steps' = Append(steps, "measure_cycles")
    /\ lowest' = -1
    /\ events' = <<>>
    /\ pc' = "mc_loop"
    /\ UNCHANGED <<start_time, end_time, start_regs, end_regs, cycles, elapsed_ns>>
    /\ UNCHANGED <<func, next_call, input_data, cpu_clock, calls, invoked, completed>>
    /\ UNCHANGED <<kernel_vars, rt_vars, env_vars, io_vars>>

\* line 96: for (run = 0; run < NUM_RUNS; run++); line 118: return min_cycles
McLoop ==
    /\ pc = "mc_loop"
    /\ IF run < NUM_RUNS
       THEN /\ pc' = "mc_clock_start"
            /\ events' = <<>>
            /\ UNCHANGED rt_cycles
       ELSE /\ rt_cycles' = min_cycles
            /\ pc' = "rt_adds"
            /\ UNCHANGED events
    /\ UNCHANGED lowest
    /\ UNCHANGED <<func, next_call, input_data, i, size, live, cpu_clock,
                   adds_per_cycle, result, calls>>
    /\ UNCHANGED <<kernel_vars, timer_vars, env_vars, io_vars, log_vars>>

\* line 100: clock_gettime(CLOCK_MONOTONIC, &start_time)
ClockStart ==
    /\ pc = "mc_clock_start"
    /\ \E t \in now..Len(ClockReadings) :
          /\ now' = t
          /\ start_time' = ClockReadings[t]
    /\ events' = Append(events, "clock_gettime")
    /\ UNCHANGED lowest
    /\ pc' = "mc_rdtsc_start"
    /\ UNCHANGED <<run, min_cycles, end_time, start_regs, end_regs, cycles,
                   elapsed_ns, tsc>>
    /\ UNCHANGED <<func, next_call, input_data, cpu_clock, calls>>
    /\ UNCHANGED <<kernel_vars, rt_vars, io_vars, log_vars>>

\* line 101: rdtsc into start_low, start_high
RdtscStart ==
    /\ pc = "mc_rdtsc_start"
    /\ \E t \in tsc..(U64 - 1) :
          /\ tsc' = t
          /\ start_regs' = Rdtsc(t)
    /\ events' = Append(events, "rdtsc")
    /\ UNCHANGED lowest
    /\ pc' = "mc_call"
    /\ UNCHANGED <<run, min_cycles, start_time, end_time, end_regs, cycles,
                   elapsed_ns, now>>
    /\ UNCHANGED <<func, next_call, input_data, cpu_clock, calls>>
    /\ UNCHANGED <<kernel_vars, rt_vars, io_vars, log_vars>>

\* line 102: func(size, input_data); the value is dropped
TimedCall ==
    /\ pc = "mc_call"
    /\ calls' = calls + 1
    /\ events' = Append(events, "func")
    /\ UNCHANGED lowest
    /\ pc' = IF Invoke(func, size, input_data).pc = "done"
             THEN "mc_rdtsc_end" ELSE "undefined"
    /\ UNCHANGED <<func, next_call, input_data, cpu_clock>>
    /\ UNCHANGED <<kernel_vars, timer_vars, rt_vars, env_vars, io_vars, log_vars>>

\* line 103: rdtsc into end_low, end_high
RdtscEnd ==
    /\ pc = "mc_rdtsc_end"
    /\ \E t \in tsc..(U64 - 1) :
          /\ tsc' = t
          /\ end_regs' = Rdtsc(t)
    /\ events' = Append(events, "rdtsc")
    /\ UNCHANGED lowest
    /\ pc' = "mc_clock_end"
    /\ UNCHANGED <<run, min_cycles, start_time, end_time, start_regs, cycles,
                   elapsed_ns, now>>
    /\ UNCHANGED <<func, next_call, input_data, cpu_clock, calls>>
    /\ UNCHANGED <<kernel_vars, rt_vars, io_vars, log_vars>>

\* line 104: clock_gettime(CLOCK_MONOTONIC, &end_time)
ClockEnd ==
    /\ pc = "mc_clock_end"
    /\ \E t \in now..Len(ClockReadings) :
          /\ now' = t
          /\ end_time' = ClockReadings[t]
    /\ events' = Append(events, "clock_gettime")
    /\ UNCHANGED lowest
    /\ pc' = "mc_compute"
    /\ UNCHANGED <<run, min_cycles, start_time, start_regs, end_regs, cycles,
                   elapsed_ns, tsc>>
    /\ UNCHANGED <<func, next_call, input_data, cpu_clock, calls>>
    /\ UNCHANGED <<kernel_vars, rt_vars, io_vars, log_vars>>

\* MinUpdate that keeps the latest sample.
MinUpdateLast(c, m) == c

\* line 113: if (cycles < min_cycles) min_cycles = cycles
MinUpdate(c, m) == IF c < m THEN c ELSE m

\* ClockWrite that writes in the first run only.
ClockWriteFirst(old, c, ns) == IF old.kind = "int" THEN ClockHz(c, ns) ELSE old

\* line 111: what is written through cpu_clock after a run
ClockWrite(old, c, ns) == ClockHz(c, ns)

\* lines 106-115 and run++: the sample, the clock estimate, the minimum
Compute ==
    /\ pc = "mc_compute"
    /\ LET start == Combine(start_regs)
           end == Combine(end_regs)
           c == SubU64(end, start)
           ns == ElapsedNs(start_time, end_time)
       IN  /\ cycles' = c
           /\ elapsed_ns' = ns
           /\ cpu_clock' = ClockWrite(cpu_clock, c, ns)
           /\ min_cycles' = MinUpdate(c, min_cycles)
           /\ lowest' = IF lowest = -1 \/ c < lowest THEN c ELSE lowest
    /\ UNCHANGED events
    /\ run' = run + 1
    /\ pc' = "mc_loop"
    /\ UNCHANGED <<start_time, end_time, start_regs, end_regs>>
    /\ UNCHANGED <<func, next_call, input_data, calls>>
    /\ UNCHANGED <<kernel_vars, rt_vars, env_vars, io_vars, log_vars>>

\* line 141: adds_per_cycle = (double)size / cycles
RtAdds ==
    /\ pc = "rt_adds"
    /\ adds_per_cycle' = FDiv(Double(size), Double(rt_cycles))
    /\ steps' = Append(steps, "adds_per_cycle")
    /\ pc' = "rt_call"
    /\ UNCHANGED <<func, next_call, input_data, i, size, live, cpu_clock,
                   rt_cycles, result, calls, invoked, completed>>
    /\ UNCHANGED <<kernel_vars, timer_vars, env_vars, io_vars>>
    /\ UNCHANGED probe_vars

\* line 142: result = func(size, input_data)
DisplayCall ==
    /\ pc = "rt_call"
    /\ LET r == Invoke(func, size, input_data)
       IN  IF r.pc = "done"
           THEN result' = r.result /\ pc' = "rt_print"
           ELSE result' = result /\ pc' = "undefined"
    /\ calls' = calls + 1
    /\ steps' = Append(steps, "func")
    /\ UNCHANGED <<func, next_call, input_data, i, size, live, cpu_clock,
                   rt_cycles, adds_per_cycle, invoked, completed>>
    /\ UNCHANGED <<kernel_vars, timer_vars, env_vars, io_vars>>
    /\ UNCHANGED probe_vars

\* line 144: the report row
PrintRow ==
    /\ pc = "rt_print"
    /\ out' = Emit(out, [kind |-> "row", size |-> size, result |-> result,
                          cycles |-> rt_cycles,
                          clock_ghz |-> FDiv(cpu_clock, Double(NsPerSec)),
                          adds_per_cycle |-> adds_per_cycle])
    /\ steps' = Append(steps, "printf")
    /\ pc' = "rt_free"
    /\ UNCHANGED <<func, next_call, input_data, i, size, live, cpu_clock,
                   rt_cycles, adds_per_cycle, result, calls, invoked, completed,
                   err, exit_status>>
    /\ UNCHANGED <<kernel_vars, timer_vars, env_vars>>
    /\ UNCHANGED probe_vars

\* Free without the free.
FreeLeak ==
    /\ pc = "rt_free"
    /\ input_data' = NULL
    /\ completed' = Append(completed, <<func, size, calls, out.rows>>)
    /\ steps' = Append(steps, "free")
    /\ i' = i + 1
    /\ cpu_clock' = Double(0) /\ rt_cycles' = 0
    /\ adds_per_cycle' = Double(0) /\ result' = 0
    /\ run' = 0 /\ min_cycles' = 0 /\ cycles' = 0 /\ elapsed_ns' = 0
    /\ start_time' = ClockReadings[1] /\ end_time' = ClockReadings[1]
    /\ start_regs' = <<0, 0>> /\ end_regs' = <<0, 0>>
    /\ events' = <<>> /\ lowest' = -1
    /\ pc' = "rt_loop"
    /\ UNCHANGED <<func, next_call, size, calls, invoked, live>>
    /\ UNCHANGED <<kernel_vars, env_vars, io_vars>>

\* line 145 and i++: free(input_data); the iteration's locals go out of scope
Free ==
    /\ pc = "rt_free"
    /\ live' = live - 1
    /\ input_data' = NULL
    /\ completed' = Append(completed, <<func, size, calls, out.rows>>)
    /\ steps' = Append(steps, "free")
    /\ i' = i + 1
    /\ cpu_clock' = Double(0) /\ rt_cycles' = 0
    /\ adds_per_cycle' = Double(0) /\ result' = 0
    /\ run' = 0 /\ min_cycles' = 0 /\ cycles' = 0 /\ elapsed_ns' = 0
    /\ start_time' = ClockReadings[1] /\ end_time' = ClockReadings[1]
    /\ start_regs' = <<0, 0>> /\ end_regs' = <<0, 0>>
    /\ events' = <<>> /\ lowest' = -1
    /\ pc' = "rt_loop"
    /\ UNCHANGED <<func, next_call, size, calls, invoked>>
    /\ UNCHANGED <<kernel_vars, env_vars, io_vars>>

\* line 148: the closing rule; run_test returns to main
RtFooter ==
    /\ pc = "rt_footer"
    /\ out' = Emit(out, [kind |-> "footer"])
    /\ next_call' = next_call + 1
    /\ pc' = "main"
    /\ UNCHANGED <<func, input_data, cpu_clock, calls, err, exit_status>>
    /\ UNCHANGED <<kernel_vars, timer_vars, rt_vars, env_vars, log_vars>>
    /\ UNCHANGED probe_vars

\* line 161: return 0
MainReturn ==
    /\ pc = "main"
    /\ next_call > Len(KernelNames)
    /\ exit_status' = 0
    /\ pc' = "exited"
    /\ UNCHANGED <<func, next_call, input_data, cpu_clock, calls, out, err>>
    /\ UNCHANGED <<kernel_vars, timer_vars, rt_vars, env_vars, log_vars>>
    /\ UNCHANGED probe_vars

prog_vars == <<pc, next_call, cpu_clock, calls, timer_vars, rt_vars, env_vars,
               io_vars, log_vars, probe_vars>>

vars == <<func, input_data, kernel_vars, prog_vars>>

Next ==
    \/ RunTestEnter \/ RtLoop \/ MallocOk \/ MallocFail \/ Fill
    \/ McEnter \/ McLoop \/ ClockStart \/ RdtscStart \/ TimedCall
    \/ RdtscEnd \/ ClockEnd \/ Compute
    \/ RtAdds \/ DisplayCall \/ PrintRow \/ Free \/ RtFooter \/ MainReturn

Spec == InitMain /\ [][Next]_vars

\* ---- a kernel called on its own, with any count and buffer ----

InitKernel ==
    /\ func \in Kernels
    /\ count \in Counts
    /\ input_data \in Buffers(count)
    /\ kst = KInit(func)
    /\ pc = "kernel"
    /\ next_call = 0
    /\ i = 0 /\ size = 0 /\ live = 0
    /\ cpu_clock = Double(0)
    /\ rt_cycles = 0
    /\ adds_per_cycle = Double(0)
    /\ result = 0
    /\ run = 0 /\ min_cycles = 0
    /\ start_time = ClockReadings[1] /\ end_time = ClockReadings[1]
    /\ start_regs = <<0, 0>> /\ end_regs = <<0, 0>>
    /\ cycles = 0 /\ elapsed_ns = 0
    /\ tsc = 0
    /\ now = 1
    /\ out = [lines |-> 0, tables |-> 0, table_lines |-> 0, rows |-> 0,
              footers |-> 0, last |-> NoLine]
    /\ err = <<>>
    /\ exit_status = -1
    /\ calls = 0
    /\ events = <<>>
    /\ lowest = -1
    /\ steps = <<>>
    /\ invoked = <<>>
    /\ completed = <<>>

KernelLoop ==
    /\ kst.pc = "loop"
    /\ kst' = KStep(func, count, input_data, kst)
    /\ UNCHANGED <<func, count, input_data, prog_vars>>

KernelTail ==
    /\ kst.pc = "tail"
    /\ kst' = KStep(func, count, input_data, kst)
    /\ UNCHANGED <<func, count, input_data, prog_vars>>

NextKernel == KernelLoop \/ KernelTail

SpecKernel == InitKernel /\ [][NextKernel]_vars

\* The same, with every step of a running kernel eventually taken.
FairSpecKernel == SpecKernel /\ WF_vars(NextKernel)

\* ------------------------------------------------------------------ claims

\* The sum of elements lo .. hi-1 of buf, modulo 2^Width.
RECURSIVE SumRange(_, _, _)
SumRange(buf, lo, hi) ==
    IF hi <= lo THEN 0
    ELSE IF hi = lo + 1 THEN Load(buf, lo)
    ELSE LET mid == lo + ((hi - lo) \div 2)
         IN  AddU32(SumRange(buf, lo, mid), SumRange(buf, mid, hi))

Returned == kst.pc = "done"

\* C1: for every count divisible by 4 and every buffer of that many elements,
\* each of the five kernels stays inside the buffer and returns the sum of the
\* elements modulo 2^32 (so all five agree).
C1_KernelsAgreeOnMultiplesOf4 ==
    count % 4 = 0 =>
        /\ ~kst.oob
        /\ Returned => kst.result = SumRange(input_data, 0, count)

\* The sizes the program supports: those compiled into main; the multiples
\* of 4 up to MaxCount are checked with them.
Supported(n) == n \in DriverSizes \/ (n % 4 = 0 /\ n <= MaxCount)

C3_SimdSafeForEveryCount ==
    func \in {"Simd128", "Simd256"} =>
        /\ ~kst.oob
        /\ Returned => kst.result = SumRange(input_data, 0, count)

UnrollFactor(f) == IF f = "Unroll2Scalar" THEN 2 ELSE 4

Unrolled == func \in {"Unroll2Scalar", "Unroll4Scalar"}

C4_Safety ==
    /\ Unrolled =>
          /\ Returned => count % UnrollFactor(func) = 0
          /\ kst.oob => count % UnrollFactor(func) # 0
    /\ \A k \in 1..num_sizes : test_sizes[k] % 4 = 0
    /\ (count \in DriverSizes /\ input_data = Iota(count)) => ~kst.oob

\* C4: an unrolled kernel reads only elements 0..n-1 exactly when n is a
\* multiple of its unroll factor: then it returns without leaving the buffer,
\* and otherwise it reads an element at an index >= n, which nothing prevents.
\* Every size of test_sizes is divisible by 4, and no kernel leaves the buffer
\* on the calls the program makes.
C4_UnrollInBoundsIffMultiple ==
    /\ []C4_Safety
    /\ (Unrolled /\ count % UnrollFactor(func) = 0) ~> Returned
    /\ (Unrolled /\ count % UnrollFactor(func) # 0) ~> kst.oob

C4_Witness ==
    /\ func = "Unroll4Scalar" /\ count % 4 = 2 /\ kst.oob /\ kst.i = count - 2

Failed == pc = "exited" /\ exit_status # 0

\* C5: on allocation failure the process has exited with a non-zero status
\* and a diagnostic naming the failed size, after one attempt, with no kernel
\* or timer invoked for that size and nothing written to standard output in
\* this run of run_test.
C5_NoOutputOnAllocationFailure ==
    Failed =>
        /\ exit_status = EXIT_FAILURE
        /\ err = <<[kind |-> "alloc_failed", size |-> size]>>
        /\ steps = <<"malloc">>
        /\ calls = 0
        /\ out.table_lines = 0

\* C5, amended: as above, except that the report is partial: the table's
\* title and column header (4 lines) and the rows of the earlier sizes are on
\* standard output, as is every earlier kernel's table; no row is written for
\* the failed size and the table's closing rule is never written.
C5_AllocationFailure ==
    Failed =>
        /\ exit_status = EXIT_FAILURE
        /\ err = <<[kind |-> "alloc_failed", size |-> size]>>
        /\ size = test_sizes[i + 1]
        /\ steps = <<"malloc">>
        /\ calls = 0
        /\ live = 0
        /\ out.rows = i
        /\ out.table_lines = 4 + i
        /\ out.tables = Len(invoked)
        /\ out.footers = out.tables - 1
        /\ out.last.kind # "footer"

C5_Witness == Failed /\ next_call = 3 /\ out.footers = 2 /\ out.table_lines = 4

Bracket == <<"clock_gettime", "rdtsc", "func", "rdtsc", "clock_gettime">>

InTimer ==
    pc \in {"mc_loop", "mc_clock_start", "mc_rdtsc_start", "mc_call",
            "mc_rdtsc_end", "mc_clock_end", "mc_compute"}

\* C6: one call of measure_cycles calls the kernel exactly NUM_RUNS times,
\* each call between two rdtsc reads that are themselves between the two
\* clock_gettime reads, and returns the least of the runs' end - start.
C6_MinimumOfAllRuns ==
    /\ InTimer => /\ events = SubSeq(Bracket, 1, Len(events))
                  /\ calls = run + (IF pc \in {"mc_rdtsc_end", "mc_clock_end", "mc_compute"}
                                     THEN 1 ELSE 0)
    /\ pc = "mc_compute" => events = Bracket
    /\ (pc = "mc_loop" /\ run > 0) => /\ events = Bracket
                                      /\ cycles = SubU64(Combine(end_regs), Combine(start_regs))
                                      /\ lowest <= cycles
    /\ pc = "rt_adds" => /\ run = NUM_RUNS
                         /\ calls = NUM_RUNS
                         /\ rt_cycles = lowest

C6_Witness ==
    /\ pc = "rt_adds" /\ calls = NUM_RUNS /\ rt_cycles = lowest
    /\ rt_cycles < cycles

ActualSteps ==
    <<"malloc", "fill", "measure_cycles", "adds_per_cycle", "func", "printf", "free">>

ClaimedSteps ==
    <<"malloc", "fill", "measure_cycles", "func", "adds_per_cycle", "printf", "free">>

TrialDone == pc = "rt_loop" /\ i > 0

C7_Common ==
    /\ live \in {0, 1}
    /\ live = 1 <=> (steps # <<>> /\ steps[Len(steps)] # "free" /\ ~Failed)
    /\ pc = "rt_malloc" => live = 0
    /\ live = 1 => input_data.len = size
    /\ pc \in {"mc_enter", "rt_adds", "rt_call", "rt_print", "rt_free"} \/ InTimer
          => input_data = Iota(size)
    /\ TrialDone => /\ calls = NUM_RUNS + 1
                    /\ out.rows = i
                    /\ out.last.kind = "row"
                    /\ out.last.size = size
                    /\ completed[Len(completed)] = <<func, size, NUM_RUNS + 1, i>>
                    /\ live = 0
    /\ pc = "rt_free" => /\ out.last.adds_per_cycle = FDiv(Double(size), Double(rt_cycles))
                         /\ out.last.cycles = rt_cycles
                         /\ out.last.result = result
    /\ (pc = "exited" /\ exit_status = 0) => live = 0

\* C7: for each size run_test allocates, fills, times, calls the kernel once
\* more, computes adds-per-cycle, prints one row and frees, in that order;
\* the kernel runs NUM_RUNS + 1 times; at most one buffer is live at a time
\* and none at normal completion.
C7_StepsAsClaimed ==
    /\ C7_Common
    /\ steps = SubSeq(ClaimedSteps, 1, Len(steps))

\* C7, amended: the same, with adds-per-cycle computed before the kernel's
\* extra call: allocate, fill, time, compute adds-per-cycle, call the kernel
\* once more, print one row, free.
C7_StepsInOrder ==
    /\ C7_Common
    /\ steps = SubSeq(ActualSteps, 1, Len(steps))
    /\ TrialDone => steps = ActualSteps

C7_Witness ==
    /\ TrialDone /\ steps = ActualSteps /\ calls = NUM_RUNS + 1 /\ next_call = 2

OrderOfKernels ==
    <<"SingleScalar", "Unroll2Scalar", "Unroll4Scalar", "Simd128", "Simd256">>

\* C9: main calls run_test once per kernel, in the order scalar, unroll-2,
\* unroll-4, vector-128, vector-256, each over test_sizes; a kernel/size pair
\* has had its NUM_RUNS timed runs and its row before the next pair starts;
\* with no allocation failure the process exits with status 0 after five
\* tables.
C9_DriverOrder ==
    /\ invoked = SubSeq(OrderOfKernels, 1, Len(invoked))
    /\ pc = "main" => Len(invoked) = next_call - 1
    /\ pc \notin {"main", "kernel", "exited"} => /\ Len(invoked) = next_call
                                                 /\ func = OrderOfKernels[next_call]
    /\ \A k \in 1..Len(completed) :
          completed[k] = << OrderOfKernels[((k - 1) \div num_sizes) + 1],
                            test_sizes[((k - 1) % num_sizes) + 1],
                            NUM_RUNS + 1,
                            ((k - 1) % num_sizes) + 1 >>
    /\ pc \in {"rt_malloc", "rt_fill", "mc_enter"} =>
          Len(completed) = (next_call - 1) * num_sizes + i
    /\ pc # "undefined"
    /\ pc = "exited" =>
          IF err = <<>>
          THEN /\ exit_status = 0
               /\ invoked = OrderOfKernels
               /\ Len(completed) = 5 * num_sizes
               /\ out.tables = 5 /\ out.footers = 5
               /\ out.lines = 5 * (5 + num_sizes)
          ELSE exit_status # 0
    /\ pc = "exited" \/ ENABLED Next

C9_Witness ==
    /\ pc = "exited" /\ exit_status = 0 /\ out.tables = 5 /\ Len(completed) = 5

AfterTimer == pc \in {"rt_adds", "rt_call", "rt_print", "rt_free"}

\* C10: what measure_cycles leaves in cpu_clock is cycles / (elapsed_ns / 1e9)
\* of the last run, whichever run gave the minimum; every run overwrites it;
\* it is a finite number exactly when the last run's elapsed_ns is not 0.
C10_ClockOfLastRun ==
    /\ ((pc = "mc_loop" /\ run > 0) \/ AfterTimer) =>
          /\ cpu_clock = ClockHz(cycles, elapsed_ns)
          /\ elapsed_ns = ElapsedNs(start_time, end_time)
          /\ Class(cpu_clock) = "finite" <=> elapsed_ns # 0
    /\ pc = "rt_free" =>
          out.last.clock_ghz = FDiv(ClockHz(cycles, elapsed_ns), Double(NsPerSec))

C10_Witness ==
    /\ pc = "rt_adds" /\ rt_cycles # cycles /\ elapsed_ns # 0
    /\ cpu_clock = ClockHz(cycles, elapsed_ns)
=============================================================================
